---- MODULE Spec2Model ----
(***************************************************************************)
(* Reliable transaction delivery engine of op-service/txmgr (Algorand      *)
(* flavour): the progress tracker SendState, the dispatch loop of          *)
(* SimpleTxManager.sendTx with its publish-and-wait goroutines, the        *)
(* backend and the caller's context.                                       *)
(*                                                                         *)
(* One unit of the clock is one ReceiptQueryInterval and the dispatch loop *)
(* is entered at time 0.  The clock value is compared with deadlines only, *)
(* so it stops counting at Horizon, where every comparison is decided,     *)
(* while the tickers keep firing.                                          *)
(***************************************************************************)
EXTENDS Integers, Sequences, FiniteSets, Bags, TLC

(* ------------------------------ bounds -------------------------------- *)
\* goroutines of one call that may run at the same time
MaxTasks == 2
\* successful publishes one call may record
MaxPublish == 2
\* calls made to one admission queue
MaxCalls == 3
\* largest concurrency limit of an admission queue
MaxConcurrent == 2
\* ticks of the resubmission ticker that a counted call processes
MaxTicks == 2
\* largest absolute value of a duration flag, in clock units
MaxDuration == 1

(* --------------------------- configuration ---------------------------- *)
\* Config.NetworkTimeout
NetworkTimeout == 1
\* Config.ReceiptQueryInterval, the unit of the clock
ReceiptQueryInterval == 1
\* Config.ResubmissionTimeout
ResubmissionTimeout == 2
\* Config.TxNotInMempoolTimeout
TxNotInMempoolTimeout == 1
\* Config.TxSendTimeout when it is enabled (0 disables it)
TxSendTimeout == 1
\* deadline of the caller's context when it has one
CallerTimeout == 2
\* capacity of receiptChan
ReceiptChanCap == 1

NoDeadline == -1
\* the clock value from which no deadline of the model lies ahead
Horizon == IF CallerTimeout > TxNotInMempoolTimeout + 1 THEN CallerTimeout ELSE TxNotInMempoolTimeout + 1
TxIds == {"aabb", "ccdd"}
\* id of the transaction the call signs
Txid == "aabb"

VARIABLES
    now,          \* the clock
    deadline,     \* deadline of the call's context, NoDeadline when it has none
    ctxErr,       \* ctx.Err() of the call's context: "nil", "Canceled", "DeadlineExceeded"
    subCancelled, \* cancel() of sendTx's derived context has run
    pending,      \* SimpleTxManager.pending
    mainPc,       \* position of the goroutine running Send
    retConf,      \* confirmation returned by Send
    retErr,       \* error returned by Send
    sendState,    \* the SendState of the call
    receiptChan,  \* the buffered result channel
    tickerC,      \* the resubmission ticker's channel holds a tick
    tickerIn,     \* clock units until the resubmission ticker fires, 0 when stopped
    tasks,        \* the publish-and-wait goroutines
    backend,      \* what the ledger backend knows about Txid
    hist,         \* history of the run, read by the properties only
    queue,        \* the admission queue in front of the engine
    cfg,          \* the CLIConfig read from the flags and what Check said about it
    other         \* a second Send call on the same SimpleTxManager

vars == <<now, deadline, ctxErr, subCancelled, pending, mainPc, retConf, retErr,
          sendState, receiptChan, tickerC, tickerIn, tasks, backend, hist, queue, cfg,
          other>>

Min(a, b) == IF a < b THEN a ELSE b

(* ------------------------- configuration check ----------------------- *)
\* CLIConfig as far as Check reads it; SignerErr is what SignerCLIConfig.Check()
\* returns for the signer's part
CLIConfig(url, network, resubmission, receiptQuery, txSend, notInMempool, signerErr) ==
    [L1RPCURL |-> url,
     NetworkTimeout |-> network,
     ResubmissionTimeout |-> resubmission,
     ReceiptQueryInterval |-> receiptQuery,
     TxSendTimeout |-> txSend,
     TxNotInMempoolTimeout |-> notInMempool,
     SignerErr |-> signerErr]

\* CLIConfig.Check
Check(m) ==
    IF m.L1RPCURL = "" THEN "must provide a L1 RPC url"
    ELSE IF m.NetworkTimeout = 0 THEN "must provide NetworkTimeout"
    ELSE IF m.ResubmissionTimeout = 0 THEN "must provide ResubmissionTimeout"
    ELSE IF m.ReceiptQueryInterval = 0 THEN "must provide ReceiptQueryInterval"
    ELSE IF m.TxNotInMempoolTimeout = 0 THEN "must provide TxNotInMempoolTimeout"
    ELSE m.SignerErr

\* the configuration the engine of this model runs with, after its check
EngineConfig ==
    LET m == CLIConfig("url", NetworkTimeout, ResubmissionTimeout, ReceiptQueryInterval,
                       TxSendTimeout, TxNotInMempoolTimeout, "nil")
    IN [cli |-> m, pc |-> "checked", err |-> Check(m)]

(* --------------------------- backend values --------------------------- *)
\* models.PendingTransactionInfoResponse as far as the engine reads it
Info(round, poolError) == [kind |-> "info", ConfirmedRound |-> round, PoolError |-> poolError]
NilInfo == [kind |-> "nil", ConfirmedRound |-> 0, PoolError |-> ""]
ErrResp == [kind |-> "err", ConfirmedRound |-> 0, PoolError |-> ""]
NoResp == [kind |-> "none", ConfirmedRound |-> 0, PoolError |-> ""]

\* mockBackend.PendingTransactionInformation: nil for an unknown id
PendingTransactionInformation(b) ==
    IF b.present THEN Info(b.confirmedRound, b.poolError) ELSE NilInfo

(* ------------------------------ SendState ----------------------------- *)
NewSendStateWithNow(unableToSendTimeout, t) ==
    [minedTxs |-> {},
     txInMempoolDeadline |-> t + unableToSendTimeout,
     successFullPublishCount |-> 0]

NewSendState(unableToSendTimeout, t) == NewSendStateWithNow(unableToSendTimeout, t)

\* a tracker that counts every publish, failed or not
ProcessSendError_CountsErrors(s, err) ==
    [s EXCEPT !.successFullPublishCount = @ + 1]

ProcessSendError(s, err) ==
    IF err = "nil"
    THEN [s EXCEPT !.successFullPublishCount = @ + 1]
    ELSE s

\* an insert that forgets the ids recorded before
TxMined_Replace(s, txid) == [s EXCEPT !.minedTxs = {txid}]

TxMined(s, txid) == [s EXCEPT !.minedTxs = @ \cup {txid}]

\* a delete that is missing
TxNotMined_Keeps(s, txid) == s

TxNotMined(s, txid) == [s EXCEPT !.minedTxs = @ \ {txid}]

\* the give-up rule of the Ethereum manager this one replaces: abort once the
\* deadline has passed without a successful publish
ShouldAbortImmediately_Deadline(s, t) ==
    IF Cardinality(s.minedTxs) > 0
    THEN FALSE
    ELSE s.successFullPublishCount = 0 /\ t > s.txInMempoolDeadline

\* abort after the deadline whatever was published
ShouldAbortImmediately_IgnoresPublishes(s, t) ==
    IF Cardinality(s.minedTxs) > 0
    THEN FALSE
    ELSE t > s.txInMempoolDeadline

ShouldAbortImmediately(s, t) ==
    IF Cardinality(s.minedTxs) > 0
    THEN FALSE
    ELSE FALSE

\* a tracker that never reports a mined transaction
IsWaitingForConfirmation_Never(s) == FALSE

IsWaitingForConfirmation(s) == Cardinality(s.minedTxs) > 0

(* ------------------------- derived quantities ------------------------- *)
\* a goroutine running publishAndWaitForTx: the id of the signed transaction it was
\* given, its position, its queryTicker's channel and the answer of its last
\* backend query
Task(tx, pc, qC, resp) == [tx |-> tx, pc |-> pc, qC |-> qC, resp |-> resp]

Running == BagToSet(tasks)

\* sync.WaitGroup counter of sendTx: the goroutines that have not called Done
wg == BagCardinality(tasks)

\* wg.Wait() returning at once, as if the deferred wait were missing
wgWait_NoWait == TRUE

\* wg.Wait() can return
wgWait == wg = 0

\* a select whose ctx.Done() case never becomes ready
ctxDone_NotPropagated == FALSE

\* ctx.Done() of the derived context is closed: the parent ended or cancel() ran
ctxDone == ctxErr # "nil" \/ subCancelled

\* a send whose default case is always taken
Offer_Drop(ch, r) == ch

\* a send that always appends, as on a channel without a capacity limit
Offer_NoCapacity(ch, r) == Append(ch, r)

\* select { case receiptChan <- receipt: default: }
Offer(ch, r) == IF Len(ch) < ReceiptChanCap THEN Append(ch, r) ELSE ch

\* a receipt queryReceipt hands back
IsReceipt(r) == r.kind = "info" /\ r.ConfirmedRound > 0 /\ r.PoolError = ""

\* some goroutine or the loop holds a confirmation the backend reported
Observed ==
    \/ \E t \in Running : IsReceipt(t.resp)
    \/ receiptChan # <<>>
    \/ retConf # NoResp

\* a spawn that starts two goroutines at once
Spawn_Twice(ts, tx) ==
    ts (+) SetToBag({Task(tx, "publish", FALSE, NoResp)})
       (+) SetToBag({Task(tx, "publish", FALSE, NoResp)})

\* wg.Add(1); go sendTxAsync(tx)
Spawn(ts, tx) == ts (+) SetToBag({Task(tx, "publish", FALSE, NoResp)})

\* a resubmission that signs the candidate again and so gets another id
Resubmitted_Resigned(tx) == CHOOSE id \in TxIds : id # tx

\* the transaction a resubmission tick hands to the new goroutine: the one sendTx
\* was called with, nothing is changed or signed again
Resubmitted(tx) == tx

\* goroutine t moves on as u
Step(ts, t, u) == (ts (-) SetToBag({t})) (+) SetToBag({u})

\* goroutine t returns: the deferred wg.Done()
Exit(ts, t) == ts (-) SetToBag({t})

(* -------------------------------- Init -------------------------------- *)
\* Wait has not returned yet
NeverDrained == -1

\* NewQueue(ctx, txMgr, maxPending): no entry yet, nobody in Wait
NewQueue(maxPending) ==
    [maxPending |-> maxPending, entries |-> <<>>, waitPc |-> "idle", drainedAt |-> NeverDrained]

\* no SendTransaction of the call has succeeded yet
NeverSubmitted == -1

\* the history of a call before it starts; counted says whether the call's
\* publish attempts and processed ticks are counted
NoHist(counted) ==
    [confirmedLive |-> FALSE, expiredUnobserved |-> FALSE, leftRunning |-> FALSE,
     dropped |-> FALSE, rejected |-> FALSE,
     trackerErrs |-> 0, marked |-> {}, sendTimeout |-> 0, signs |-> 0,
     counted |-> counted, attempts |-> 0, ticks |-> 0, firstSubmit |-> NeverSubmitted]

\* a counted call has started a more goroutines and taken k ticks from ticker.C
Counted(h, a, k) ==
    IF h.counted THEN [h EXCEPT !.attempts = @ + a, !.ticks = @ + k] ELSE h

\* a counted call notes the time of its first successful SendTransaction
Submitted(h, t) ==
    IF h.counted /\ h.firstSubmit = NeverSubmitted THEN [h EXCEPT !.firstSubmit = t] ELSE h

\* a second call of Send that has not been made: the locals of its sendTx and
\* what it returns
NoCall ==
    [pc |-> "idle", tx |-> Txid,
     sendState |-> NewSendState(TxNotInMempoolTimeout, 0),
     receiptChan |-> <<>>, retConf |-> NoResp, retErr |-> "nil"]

InitCall(h) ==
    /\ now = 0
    /\ deadline \in {NoDeadline, CallerTimeout}
    /\ ctxErr = "nil"
    /\ subCancelled = FALSE
    /\ pending = 0
    /\ mainPc = "Send"
    /\ retConf = NoResp
    /\ retErr = "nil"
    /\ sendState = NewSendState(TxNotInMempoolTimeout, 0)
    /\ receiptChan = <<>>
    /\ tickerC = FALSE
    /\ tickerIn = 0
    /\ tasks = EmptyBag
    /\ backend = [seen |-> FALSE, present |-> FALSE, confirmedRound |-> 0, poolError |-> "",
                  params |-> 0, ids |-> {}]
    /\ hist = h

InitEngine == InitCall(NoHist(FALSE))

Init == InitEngine /\ queue = NewQueue(0) /\ cfg = EngineConfig /\ other = NoCall

(* --------------------------- the environment -------------------------- *)
\* a tick of its queryTicker reaches goroutine t
QueryTick(t) == IF t.pc \in {"waitMined", "queried"} THEN [t EXCEPT !.qC = TRUE] ELSE t

\* one ReceiptQueryInterval passes: the context's deadline timer and the tickers fire
Tick ==
    /\ mainPc \in {"loop", "wgWait"}
    /\ now' = Min(now + ReceiptQueryInterval, Horizon)
    /\ LET expires == /\ ctxErr = "nil"
                      /\ deadline # NoDeadline
                      /\ now + ReceiptQueryInterval >= deadline
       IN /\ ctxErr' = IF expires THEN "DeadlineExceeded" ELSE ctxErr
          /\ hist' = IF expires /\ ~Observed
                     THEN [hist EXCEPT !.expiredUnobserved = TRUE]
                     ELSE hist
    /\ tickerC' = (tickerC \/ tickerIn = 1)
    /\ tickerIn' = IF tickerIn = 0 THEN 0
                   ELSE IF tickerIn = 1 THEN ResubmissionTimeout
                   ELSE tickerIn - 1
    /\ tasks' = BagOfAll(QueryTick, tasks)
    /\ UNCHANGED <<deadline, subCancelled, pending, mainPc, retConf, retErr,
                   sendState, receiptChan, backend>>
    /\ UNCHANGED <<queue, cfg, other>>

\* the caller cancels the context it passed to Send
CallerCancel ==
    /\ mainPc # "returned"
    /\ ctxErr = "nil"
    /\ ctxErr' = "Canceled"
    /\ UNCHANGED <<now, deadline, subCancelled, pending, mainPc, retConf, retErr,
                   sendState, receiptChan, tickerC, tickerIn, tasks, backend, hist>>
    /\ UNCHANGED <<queue, cfg, other>>

\* the backend takes the submitted transaction into its pool (again)
BackendInclude ==
    /\ backend.seen
    /\ mainPc # "returned"
    /\ ~backend.present \/ backend.poolError # ""
    /\ backend' = [backend EXCEPT !.present = TRUE, !.poolError = ""]
    /\ UNCHANGED <<now, deadline, ctxErr, subCancelled, pending, mainPc, retConf, retErr,
                   sendState, receiptChan, tickerC, tickerIn, tasks, hist>>
    /\ UNCHANGED <<queue, cfg, other>>

\* mockBackend.confirm: the transaction is included in a new block
BackendConfirm ==
    /\ backend.seen
    /\ mainPc # "returned"
    /\ backend.confirmedRound = 0
    /\ backend' = [backend EXCEPT !.present = TRUE, !.confirmedRound = 1]
    /\ hist' = IF ctxErr = "nil" /\ backend.poolError = ""
               THEN [hist EXCEPT !.confirmedLive = TRUE]
               ELSE hist
    /\ UNCHANGED <<now, deadline, ctxErr, subCancelled, pending, mainPc, retConf, retErr,
                   sendState, receiptChan, tickerC, tickerIn, tasks>>
    /\ UNCHANGED <<queue, cfg, other>>

\* the backend's pool rejects the transaction
BackendReject ==
    /\ backend.seen
    /\ mainPc # "returned"
    /\ backend.poolError = ""
    /\ backend' = [backend EXCEPT !.present = TRUE, !.poolError = "rejected"]
    /\ hist' = [hist EXCEPT !.rejected = TRUE]
    /\ UNCHANGED <<now, deadline, ctxErr, subCancelled, pending, mainPc, retConf, retErr,
                   sendState, receiptChan, tickerC, tickerIn, tasks>>
    /\ UNCHANGED <<queue, cfg, other>>

(* ------------------------ Send, send and craftTx ---------------------- *)
\* a Send that returns without decrementing the pending counter
Returns_NoDecrement(n) == n

\* the deferred m.pending.Add(-1) of Send
Returns(n) == n - 1

\* a send that never derives a timeout context
SendDeadline_NoTimeout(d, t, n) == d

\* the deadline of the context send works with: the caller's when TxSendTimeout is 0,
\* else that of context.WithTimeout(ctx, TxSendTimeout), the earlier of the two
SendDeadline(d, t, n) ==
    IF t = 0 THEN d
    ELSE IF d = NoDeadline THEN n + t
    ELSE Min(d, n + t)

\* Send up to the call of craftTx: the pending counter, then send's timeout context
Send ==
    /\ mainPc = "Send"
    /\ pending' = pending + 1
    /\ \E t \in {0, TxSendTimeout} :
          /\ deadline' = SendDeadline(deadline, t, now)
          /\ hist' = [hist EXCEPT !.sendTimeout = t]
    /\ mainPc' = "craftTx"
    /\ UNCHANGED <<now, ctxErr, subCancelled, retConf, retErr, sendState, receiptChan,
                   tickerC, tickerIn, tasks, backend>>
    /\ UNCHANGED <<queue, cfg, other>>

\* what can fail in craftTx: SuggestedParams, MakePaymentTxn, the signer
BuildFailures == {"params", "payment", "sign"}

\* a send that goes on to sendTx whatever craftTx returned
AfterCraft_Proceeds(fail) == "sendTx"

\* send after craftTx: return the wrapped error, else go on to sendTx
AfterCraft(fail) == IF fail = "none" THEN "sendTx" ELSE "returned"

\* craftTx: SuggestedParams, MakePaymentTxn and the signer; a failure ends the call.
\* The backend counts the SuggestedParams calls; the signer is reached only when
\* the two steps before it succeeded.
craftTx ==
    /\ mainPc = "craftTx"
    /\ \E fail \in BuildFailures \cup {"none"} :
          /\ mainPc' = AfterCraft(fail)
          /\ retErr' = IF fail = "none" THEN retErr ELSE "BuildError"
          /\ pending' = IF AfterCraft(fail) = "returned" THEN Returns(pending) ELSE pending
          /\ hist' = IF fail \in {"sign", "none"}
                     THEN [hist EXCEPT !.signs = @ + 1]
                     ELSE hist
    /\ backend' = [backend EXCEPT !.params = @ + 1]
    /\ UNCHANGED <<now, deadline, ctxErr, subCancelled, retConf, sendState, receiptChan,
                   tickerC, tickerIn, tasks>>
    /\ UNCHANGED <<queue, cfg, other>>

(* ------------------------------- sendTx ------------------------------- *)
\* sendTx up to the loop: the tracker, the channel, the first goroutine, the ticker
sendTx ==
    /\ mainPc = "sendTx"
    /\ sendState' = NewSendState(TxNotInMempoolTimeout, now)
    /\ receiptChan' = <<>>
    /\ tasks' = Spawn(tasks, Txid)
    /\ tickerIn' = ResubmissionTimeout
    /\ tickerC' = FALSE
    /\ mainPc' = "loop"
    /\ hist' = Counted(hist, BagCardinality(tasks') - wg, 0)
    /\ UNCHANGED <<now, deadline, ctxErr, subCancelled, pending, retConf, retErr,
                   backend>>
    /\ UNCHANGED <<queue, cfg, other>>

\* a loop that hands the caller the last publish error when it gives up
LoopReturn_PublishError(conf, err) ==
    /\ retConf' = conf
    /\ retErr' = IF err # "nil" /\ hist.rejected THEN "err" ELSE err
    /\ mainPc' = "wgWait"
    /\ subCancelled' = TRUE
    /\ tickerIn' = 0
    /\ hist' = [hist EXCEPT !.leftRunning = wg > 0]

\* a loop that trusts the tracker more than the receipt: it returns a confirmation
\* only while its id is marked mined
LoopReturn_MinedGate(conf, err) ==
    /\ retConf' = IF sendState.minedTxs = {} THEN NoResp ELSE conf
    /\ retErr' = IF err = "nil" /\ sendState.minedTxs = {} THEN "aborted" ELSE err
    /\ mainPc' = "wgWait"
    /\ subCancelled' = TRUE
    /\ tickerIn' = 0
    /\ hist' = [hist EXCEPT !.leftRunning = wg > 0]

\* the return statement of the loop: ticker.Stop() and cancel() are deferred
LoopReturn(conf, err) ==
    /\ retConf' = conf
    /\ retErr' = err
    /\ mainPc' = "wgWait"
    /\ subCancelled' = TRUE
    /\ tickerIn' = 0
    /\ hist' = [hist EXCEPT !.leftRunning = wg > 0]

\* case <-ticker.C
sendTx_ticker ==
    /\ mainPc = "loop"
    /\ tickerC
    /\ tickerC' = FALSE
    /\ hist.counted => hist.ticks < MaxTicks
    /\ IF IsWaitingForConfirmation(sendState)
       THEN /\ hist' = Counted(hist, 0, 1)
            /\ UNCHANGED <<retConf, retErr, mainPc, subCancelled, tickerIn, tasks>>
       ELSE IF ShouldAbortImmediately(sendState, now)
       THEN /\ LoopReturn(NoResp, "aborted")
            /\ UNCHANGED tasks
       ELSE /\ wg < MaxTasks
            /\ tasks' = Spawn(tasks, Resubmitted(Txid))
            /\ hist' = Counted(hist, BagCardinality(tasks') - wg, 1)
            /\ UNCHANGED <<retConf, retErr, mainPc, subCancelled, tickerIn>>
    /\ UNCHANGED <<now, deadline, ctxErr, pending, sendState, receiptChan, backend>>
    /\ UNCHANGED <<queue, cfg, other>>

\* case <-ctx.Done()
sendTx_ctxDone ==
    /\ mainPc = "loop"
    /\ ctxDone
    /\ LoopReturn(NoResp, ctxErr)
    /\ UNCHANGED <<now, deadline, ctxErr, pending, sendState, receiptChan, tickerC,
                   tasks, backend>>
    /\ UNCHANGED <<queue, cfg, other>>

\* case receipt := <-receiptChan
sendTx_receipt ==
    /\ mainPc = "loop"
    /\ receiptChan # <<>>
    /\ LoopReturn(Head(receiptChan), "nil")
    /\ receiptChan' = Tail(receiptChan)
    /\ UNCHANGED <<now, deadline, ctxErr, pending, sendState, tickerC, tasks, backend>>
    /\ UNCHANGED <<queue, cfg, other>>

\* the deferred wg.Wait() returns, then sendTx, send and Send return
sendTx_return ==
    /\ mainPc = "wgWait"
    /\ wgWait
    /\ mainPc' = "returned"
    /\ pending' = Returns(pending)
    /\ UNCHANGED <<now, deadline, ctxErr, subCancelled, retConf, retErr, sendState,
                   receiptChan, tickerC, tickerIn, tasks, backend, hist>>
    /\ UNCHANGED <<queue, cfg, other>>

(* ------------------------- publishAndWaitForTx ------------------------ *)
\* a goroutine that polls for the receipt whatever SendTransaction returned
AfterPublish_AlwaysPolls(ts, t, err) == Step(ts, t, Task(t.tx, "waitMined", FALSE, NoResp))

\* a goroutine whose queryTicker fires as soon as it is created
AfterPublish_PollsAtOnce(ts, t, err) ==
    IF err = "nil"
    THEN Step(ts, t, Task(t.tx, "waitMined", TRUE, NoResp))
    ELSE Exit(ts, t)

\* publishAndWaitForTx after the publish: return on an error, else go on to waitMined
AfterPublish(ts, t, err) ==
    IF err = "nil"
    THEN Step(ts, t, Task(t.tx, "waitMined", FALSE, NoResp))
    ELSE Exit(ts, t)

\* SendTransaction returns err and ProcessSendError records it
publishAndWaitForTx(t, err) ==
    /\ t.pc = "publish"
    /\ err = "nil" => sendState.successFullPublishCount < MaxPublish
    /\ sendState' = ProcessSendError(sendState, err)
    /\ tasks' = AfterPublish(tasks, t, err)
    /\ backend' = [backend EXCEPT !.seen = TRUE, !.ids = @ \cup {t.tx}]
    /\ hist' = IF err = "nil"
               THEN Submitted(hist, now)
               ELSE [hist EXCEPT !.rejected = TRUE]
    /\ UNCHANGED <<now, deadline, ctxErr, subCancelled, pending, mainPc, retConf, retErr,
                   receiptChan, tickerC, tickerIn>>
    /\ UNCHANGED <<queue, cfg, other>>

\* waitMined, case <-ctx.Done()
waitMined_ctxDone(t) ==
    /\ t.pc = "waitMined"
    /\ ctxDone
    /\ tasks' = Exit(tasks, t)
    /\ UNCHANGED <<now, deadline, ctxErr, subCancelled, pending, mainPc, retConf, retErr,
                   sendState, receiptChan, tickerC, tickerIn, backend, hist>>
    /\ UNCHANGED <<queue, cfg, other>>

\* waitMined, case <-queryTicker.C: queryReceipt's backend call answers r
waitMined_query(t, r) ==
    /\ t.pc = "waitMined"
    /\ t.qC
    /\ tasks' = Step(tasks, t, Task(t.tx, "queried", FALSE, r))
    /\ UNCHANGED <<now, deadline, ctxErr, subCancelled, pending, mainPc, retConf, retErr,
                   sendState, receiptChan, tickerC, tickerIn, backend, hist>>
    /\ UNCHANGED <<queue, cfg, other>>

\* the backend call fails
waitMined_queryErr(t) == waitMined_query(t, ErrResp)

\* the backend call returns what the backend knows
waitMined_queryInfo(t) == waitMined_query(t, PendingTransactionInformation(backend))

\* a queryReceipt that returns every answer with a confirmed round
queryReceipt_IgnoresPoolError(t) ==
    /\ t.pc = "queried"
    /\ LET r == t.resp
           again == Step(tasks, t, Task(t.tx, "waitMined", t.qC, NoResp))
       IN IF r.kind = "err"
          THEN /\ tasks' = again
               /\ UNCHANGED <<sendState, receiptChan, hist>>
          ELSE IF r.kind = "nil" \/ r.ConfirmedRound <= 0
          THEN /\ sendState' = TxNotMined(sendState, t.tx)
               /\ tasks' = again
               /\ UNCHANGED <<receiptChan, hist>>
          ELSE /\ sendState' = TxMined(sendState, t.tx)
               /\ receiptChan' = Offer(receiptChan, r)
               /\ hist' = IF receiptChan # <<>> THEN [hist EXCEPT !.dropped = TRUE] ELSE hist
               /\ tasks' = Exit(tasks, t)
    /\ UNCHANGED <<now, deadline, ctxErr, subCancelled, pending, mainPc, retConf, retErr,
                   tickerC, tickerIn, backend>>
    /\ UNCHANGED <<queue, cfg, other>>

\* a queryReceipt that takes a failed query for "not mined"
queryReceipt_ErrIsNotMined(t) ==
    /\ t.pc = "queried"
    /\ LET r == t.resp
           again == Step(tasks, t, Task(t.tx, "waitMined", t.qC, NoResp))
       IN IF ~IsReceipt(r)
          THEN /\ sendState' = TxNotMined(sendState, t.tx)
               /\ tasks' = again
               /\ UNCHANGED <<receiptChan, hist>>
          ELSE /\ sendState' = TxMined(sendState, t.tx)
               /\ receiptChan' = Offer(receiptChan, r)
               /\ hist' = IF receiptChan # <<>> THEN [hist EXCEPT !.dropped = TRUE] ELSE hist
               /\ tasks' = Exit(tasks, t)
    /\ UNCHANGED <<now, deadline, ctxErr, subCancelled, pending, mainPc, retConf, retErr,
                   tickerC, tickerIn, backend>>
    /\ UNCHANGED <<queue, cfg, other>>

\* queryReceipt after the backend call, and the offer of a receipt to receiptChan
queryReceipt(t) ==
    /\ t.pc = "queried"
    /\ LET r == t.resp
           again == Step(tasks, t, Task(t.tx, "waitMined", t.qC, NoResp))
       IN IF r.kind = "err"
          THEN /\ tasks' = again
               /\ UNCHANGED <<sendState, receiptChan, hist>>
          ELSE IF r.kind = "nil" \/ r.ConfirmedRound <= 0
          THEN /\ sendState' = TxNotMined(sendState, t.tx)
               /\ tasks' = again
               /\ UNCHANGED <<receiptChan, hist>>
          ELSE IF r.PoolError # ""
          THEN /\ sendState' = TxNotMined(sendState, t.tx)
               /\ tasks' = again
               /\ UNCHANGED <<receiptChan, hist>>
          ELSE /\ sendState' = TxMined(sendState, t.tx)
               /\ receiptChan' = Offer(receiptChan, r)
               /\ hist' = IF receiptChan # <<>> THEN [hist EXCEPT !.dropped = TRUE] ELSE hist
               /\ tasks' = Exit(tasks, t)
    /\ UNCHANGED <<now, deadline, ctxErr, subCancelled, pending, mainPc, retConf, retErr,
                   tickerC, tickerIn, backend>>
    /\ UNCHANGED <<queue, cfg, other>>

(* ------------------------------ the engine ---------------------------- *)
Next ==
    \/ Tick
    \/ CallerCancel
    \/ BackendInclude
    \/ BackendConfirm
    \/ BackendReject
    \/ Send
    \/ craftTx
    \/ sendTx
    \/ sendTx_ticker
    \/ sendTx_ctxDone
    \/ sendTx_receipt
    \/ sendTx_return
    \/ \E t \in Running : publishAndWaitForTx(t, "nil")
    \/ \E t \in Running : publishAndWaitForTx(t, "err")
    \/ \E t \in Running : waitMined_ctxDone(t)
    \/ \E t \in Running : waitMined_queryErr(t)
    \/ \E t \in Running : waitMined_queryInfo(t)
    \/ \E t \in Running : queryReceipt(t)

Spec == Init /\ [][Next]_vars

\* The Go scheduler runs every runnable goroutine, timers fire, and a select that
\* is ready again and again on a case eventually takes that case.
Fairness ==
    /\ WF_vars(Tick)
    /\ WF_vars(Send \/ craftTx \/ sendTx \/ sendTx_ctxDone \/ sendTx_receipt \/ sendTx_return)
    /\ WF_vars(\E t \in Running : \E err \in {"nil", "err"} : publishAndWaitForTx(t, err))
    /\ SF_vars(\E t \in Running : waitMined_ctxDone(t))
    /\ SF_vars(\E t \in Running : waitMined_queryInfo(t))
    /\ WF_vars(\E t \in Running : queryReceipt(t))

FairSpec == Spec /\ Fairness

\* a call whose caller passes a context without deadline, as context.Background()
InitBackground == Init /\ deadline = NoDeadline

SpecBackground == InitBackground /\ [][Next]_vars

(* ---------------- the tracker on its own, as its tests use it --------- *)
\* newSendStateWithTimeout: a fresh tracker on the current clock
Tracker_New ==
    /\ now = 0
    /\ sendState' = NewSendStateWithNow(TxNotInMempoolTimeout, now)
    /\ hist' = [hist EXCEPT !.trackerErrs = 0, !.marked = {}]
    /\ UNCHANGED <<now, deadline, ctxErr, subCancelled, pending, mainPc, retConf, retErr,
                   receiptChan, tickerC, tickerIn, tasks, backend>>
    /\ UNCHANGED <<queue, cfg, other>>

\* stepClock: the tracker's clock moves on
Tracker_Clock ==
    /\ now < Horizon
    /\ now' = now + 1
    /\ UNCHANGED <<deadline, ctxErr, subCancelled, pending, mainPc, retConf, retErr,
                   sendState, receiptChan, tickerC, tickerIn, tasks, backend, hist>>
    /\ UNCHANGED <<queue, cfg, other>>

\* processNSendErrors, one call
Tracker_ProcessSendError(err) ==
    /\ IF err = "nil"
       THEN sendState.successFullPublishCount < MaxPublish /\ UNCHANGED hist
       ELSE hist.trackerErrs < MaxPublish /\ hist' = [hist EXCEPT !.trackerErrs = @ + 1]
    /\ sendState' = ProcessSendError(sendState, err)
    /\ UNCHANGED <<now, deadline, ctxErr, subCancelled, pending, mainPc, retConf, retErr,
                   receiptChan, tickerC, tickerIn, tasks, backend>>
    /\ UNCHANGED <<queue, cfg, other>>

Tracker_TxMined(txid) ==
    /\ sendState' = TxMined(sendState, txid)
    /\ hist' = [hist EXCEPT !.marked = @ \cup {txid}]
    /\ UNCHANGED <<now, deadline, ctxErr, subCancelled, pending, mainPc, retConf, retErr,
                   receiptChan, tickerC, tickerIn, tasks, backend>>
    /\ UNCHANGED <<queue, cfg, other>>

Tracker_TxNotMined(txid) ==
    /\ sendState' = TxNotMined(sendState, txid)
    /\ hist' = [hist EXCEPT !.marked = @ \ {txid}]
    /\ UNCHANGED <<now, deadline, ctxErr, subCancelled, pending, mainPc, retConf, retErr,
                   receiptChan, tickerC, tickerIn, tasks, backend>>
    /\ UNCHANGED <<queue, cfg, other>>

NextTracker ==
    \/ Tracker_New
    \/ Tracker_Clock
    \/ Tracker_ProcessSendError("nil")
    \/ Tracker_ProcessSendError("err")
    \/ \E txid \in TxIds : Tracker_TxMined(txid)
    \/ \E txid \in TxIds : Tracker_TxNotMined(txid)

SpecTracker == Init /\ [][NextTracker]_vars

(* ------------------------- the admission queue ------------------------ *)
\* TxReceipt[T]: what a delivery writes to the result slot of its call
TxReceipt(id, receipt, err) == [ID |-> id, Receipt |-> receipt, Err |-> err]

\* a result slot nothing has been written to
NoReceipt == TxReceipt(0, NoResp, "none")

\* what the engine's Send returns to the queue
EngineReturn(receipt, err) == [Receipt |-> receipt, Err |-> err]

\* the engine confirmed the delivery
Confirmed == EngineReturn(Info(1, ""), "nil")

\* the engine gave the delivery up when the queue's context ended
Failed == EngineReturn(NoResp, "Canceled")

\* QueueEntry: the key, the call that brought it, whether its caller had to wait,
\* how far the delivery is, the result written to its result slot, and the clock
\* values at which the call was made and the delivery was started
Entry(key, call, st, res) ==
    [key |-> key, call |-> call, waited |-> st = "blocked", st |-> st, res |-> res,
     issued |-> now, started |-> now]

\* the deliveries admitted and not yet released
InFlight(q) ==
    Cardinality({i \in 1..Len(q.entries) : q.entries[i].st \in {"running", "written"}})

\* the deliveries for which the engine has been invoked
Invoked(q) ==
    Cardinality({i \in 1..Len(q.entries) :
                    q.entries[i].st \in {"running", "written", "released"}})

\* a queue that admits whatever is in flight
Admits_Always(q) == TRUE

\* a queue whose limit is off by one
Admits_OneMore(q) == q.maxPending = 0 \/ InFlight(q) <= q.maxPending

\* a queue that takes maxPending = 0 as no slot at all
Admits_ZeroIsNone(q) == InFlight(q) < q.maxPending

\* a queue that runs one delivery at a time whatever its limit
Admits_OneAtATime(q) == InFlight(q) = 0

\* a slot is free: maxPending = 0 means unbounded
Admits(q) == q.maxPending = 0 \/ InFlight(q) < q.maxPending

\* a queue whose Send gives up like TrySend when no slot is free
WhenFull_Rejects(call) == "rejected"

\* no slot is free: TrySend returns false, Send blocks its caller
WhenFull(call) == IF call = "TrySend" THEN "rejected" ELSE "blocked"

\* TrySend(id, candidate, receiptCh): admit and start the delivery, or return false
Queue_TrySend ==
    /\ Len(queue.entries) < MaxCalls
    /\ LET key == Len(queue.entries) + 1
           st == IF Admits(queue) THEN "running" ELSE WhenFull("TrySend")
       IN queue' = [queue EXCEPT !.entries = Append(@, Entry(key, "TrySend", st, NoReceipt))]
    /\ UNCHANGED <<now, deadline, ctxErr, subCancelled, pending, mainPc, retConf, retErr,
                   sendState, receiptChan, tickerC, tickerIn, tasks, backend, hist>>
    /\ UNCHANGED <<cfg, other>>

\* Send(id, candidate, receiptCh): admit and start the delivery, or block the caller
Queue_Send ==
    /\ Len(queue.entries) < MaxCalls
    /\ LET key == Len(queue.entries) + 1
           st == IF Admits(queue) THEN "running" ELSE WhenFull("Send")
       IN queue' = [queue EXCEPT !.entries = Append(@, Entry(key, "Send", st, NoReceipt))]
    /\ UNCHANGED <<now, deadline, ctxErr, subCancelled, pending, mainPc, retConf, retErr,
                   sendState, receiptChan, tickerC, tickerIn, tasks, backend, hist>>
    /\ UNCHANGED <<cfg, other>>

\* a blocked Send finds a free slot: its delivery is admitted and started
Queue_Unblock(i) ==
    /\ queue.entries[i].st = "blocked"
    /\ Admits(queue)
    /\ queue' = [queue EXCEPT !.entries[i].st = "running", !.entries[i].started = now]
    /\ UNCHANGED <<now, deadline, ctxErr, subCancelled, pending, mainPc, retConf, retErr,
                   sendState, receiptChan, tickerC, tickerIn, tasks, backend, hist>>
    /\ UNCHANGED <<cfg, other>>

\* a delivery that ends without writing anything to its result slot
Deliver_NoResult(e, ret) == [e EXCEPT !.st = "written"]

\* a delivery that puts an error of the queue's own in the place of the engine's
Deliver_OwnError(e, ret) ==
    [e EXCEPT !.st = "written",
              !.res = TxReceipt(e.key, ret.Receipt,
                                IF ret.Err = "nil" THEN "nil" ELSE "queue: delivery failed")]

\* the delivery of entry e ends: the engine's return goes to the result slot under
\* the entry's key
Deliver(e, ret) ==
    [e EXCEPT !.st = "written", !.res = TxReceipt(e.key, ret.Receipt, ret.Err)]

\* the engine's Send returns ret for delivery i and the result is written to the slot
Queue_Complete(i, ret) ==
    /\ queue.entries[i].st = "running"
    /\ queue' = [queue EXCEPT !.entries[i] = Deliver(@, ret)]
    /\ UNCHANGED <<now, deadline, ctxErr, subCancelled, pending, mainPc, retConf, retErr,
                   sendState, receiptChan, tickerC, tickerIn, tasks, backend, hist>>
    /\ UNCHANGED <<cfg, other>>

\* delivery i frees its concurrency slot
Queue_Release(i) ==
    /\ queue.entries[i].st = "written"
    /\ queue' = [queue EXCEPT !.entries[i].st = "released"]
    /\ UNCHANGED <<now, deadline, ctxErr, subCancelled, pending, mainPc, retConf, retErr,
                   sendState, receiptChan, tickerC, tickerIn, tasks, backend, hist>>
    /\ UNCHANGED <<cfg, other>>

\* a Wait that returns whatever is in flight
Drained_Always(q) == TRUE

\* a Wait that returns once the results are written, before the slots are free
Drained_IgnoresWritten(q) ==
    {i \in 1..Len(q.entries) : q.entries[i].st = "running"} = {}

\* every admitted delivery has completed and released its slot
Drained(q) == InFlight(q) = 0

\* Wait(): the caller starts to wait for the queue to drain
Queue_Wait ==
    /\ queue.waitPc = "idle"
    /\ queue' = [queue EXCEPT !.waitPc = "waiting"]
    /\ UNCHANGED <<now, deadline, ctxErr, subCancelled, pending, mainPc, retConf, retErr,
                   sendState, receiptChan, tickerC, tickerIn, tasks, backend, hist>>
    /\ UNCHANGED <<cfg, other>>

\* Wait() returns; drainedAt remembers how many calls had been made by then
Queue_WaitReturn ==
    /\ queue.waitPc = "waiting"
    /\ Drained(queue)
    /\ queue' = [queue EXCEPT !.waitPc = "idle", !.drainedAt = Len(queue.entries)]
    /\ UNCHANGED <<now, deadline, ctxErr, subCancelled, pending, mainPc, retConf, retErr,
                   sendState, receiptChan, tickerC, tickerIn, tasks, backend, hist>>
    /\ UNCHANGED <<cfg, other>>

InitQueue ==
    /\ InitEngine
    /\ deadline = NoDeadline
    /\ \E maxPending \in 0..MaxConcurrent : queue = NewQueue(maxPending)
    /\ cfg = EngineConfig
    /\ other = NoCall

NextQueue ==
    \/ Queue_TrySend
    \/ Queue_Send
    \/ \E i \in 1..Len(queue.entries) : Queue_Unblock(i)
    \/ \E i \in 1..Len(queue.entries) : Queue_Complete(i, Confirmed)
    \/ \E i \in 1..Len(queue.entries) : Queue_Complete(i, Failed)
    \/ \E i \in 1..Len(queue.entries) : Queue_Release(i)

SpecQueue == InitQueue /\ [][NextQueue]_vars

\* the queue with a caller that waits for it to drain
NextQueueWait ==
    \/ NextQueue
    \/ Queue_Wait
    \/ Queue_WaitReturn

SpecQueueWait == InitQueue /\ [][NextQueueWait]_vars

\* blocked callers are woken when a slot is free and deliveries run to their end
FairSpecQueue ==
    /\ SpecQueue
    /\ SF_vars(\E i \in 1..Len(queue.entries) : Queue_Unblock(i))
    /\ WF_vars(\E i \in 1..Len(queue.entries) :
                  \E ret \in {Confirmed, Failed} : Queue_Complete(i, ret))
    /\ WF_vars(\E i \in 1..Len(queue.entries) : Queue_Release(i))

(* ------------------- deliveries of a fixed duration -------------------- *)
\* how long the engine takes for one delivery against a backend that confirms at
\* once: the first receipt query comes one ReceiptQueryInterval after the publish
DeliveryTime == ReceiptQueryInterval

\* the one caller of the test makes its next call unless it is blocked inside Send
Timed_Call ==
    /\ \A i \in 1..Len(queue.entries) : queue.entries[i].st # "blocked"
    /\ Queue_TrySend \/ Queue_Send

\* the delivery of entry i ends when its time is up
Timed_Complete(i) ==
    /\ now >= queue.entries[i].started + DeliveryTime
    /\ Queue_Complete(i, Confirmed)

\* a step of the queue or of its caller that takes no time is due
Due ==
    \/ /\ Len(queue.entries) < MaxCalls
       /\ \A i \in 1..Len(queue.entries) : queue.entries[i].st # "blocked"
    \/ \E i \in 1..Len(queue.entries) :
          \/ queue.entries[i].st = "blocked" /\ Admits(queue)
          \/ queue.entries[i].st = "running" /\ now >= queue.entries[i].started + DeliveryTime
          \/ queue.entries[i].st = "written"

\* time passes while deliveries run and nothing else can be done
Timed_Tick ==
    /\ ~Due
    /\ \E i \in 1..Len(queue.entries) : queue.entries[i].st = "running"
    /\ now' = now + 1
    /\ UNCHANGED <<deadline, ctxErr, subCancelled, pending, mainPc, retConf, retErr,
                   sendState, receiptChan, tickerC, tickerIn, tasks, backend, hist, queue>>
    /\ UNCHANGED <<cfg, other>>

NextQueueTimed ==
    \/ Timed_Call
    \/ Timed_Tick
    \/ \E i \in 1..Len(queue.entries) : Queue_Unblock(i)
    \/ \E i \in 1..Len(queue.entries) : Timed_Complete(i)
    \/ \E i \in 1..Len(queue.entries) : Queue_Release(i)

SpecQueueTimed == InitQueue /\ [][NextQueueTimed]_vars

(* ------------------ one delivery through the engine ------------------- *)
\* the first call to a queue with one slot, whose context has no deadline
InitDelivery ==
    /\ InitEngine
    /\ deadline = NoDeadline
    /\ queue = NewQueue(1)
    /\ cfg = EngineConfig
    /\ other = NoCall

\* the first call to the queue admits a delivery
Queue_First ==
    /\ Len(queue.entries) = 0
    /\ Queue_TrySend \/ Queue_Send

\* the admitted delivery runs the engine's Send
Queue_Engine ==
    /\ \E i \in 1..Len(queue.entries) : queue.entries[i].st = "running"
    /\ Next

\* the engine's Send has returned: its return values go to the result slot
Queue_Forward ==
    /\ mainPc = "returned"
    /\ \E i \in 1..Len(queue.entries) : Queue_Complete(i, EngineReturn(retConf, retErr))

NextDelivery ==
    \/ Queue_First
    \/ Queue_Engine
    \/ Queue_Forward
    \/ \E i \in 1..Len(queue.entries) : Queue_Release(i)

SpecDelivery == InitDelivery /\ [][NextDelivery]_vars

(* ------------------------------ properties ---------------------------- *)
\* the not-in-pool deadline has elapsed on the tracker's clock
DeadlineElapsed == now > sendState.txInMempoolDeadline

\* C8: shouldAbortImmediately returns true when the mined set is empty, the
\* not-in-pool deadline has elapsed on the tracker's clock and no successful
\* publish has been recorded.
C8_AbortsAfterDeadline ==
    (sendState.minedTxs = {} /\ DeadlineElapsed /\ sendState.successFullPublishCount = 0)
        => ShouldAbortImmediately(sendState, now)

\* C9: shouldAbortImmediately returns false in every tracker state where the mined
\* set is non-empty, or a successful publish has been recorded, or the deadline has
\* not elapsed; non-nil publish errors alone never make it true before the deadline.
C9_NoAbortOtherwise ==
    (sendState.minedTxs # {} \/ sendState.successFullPublishCount > 0 \/ ~DeadlineElapsed)
        => ~ShouldAbortImmediately(sendState, now)

\* a tracker that recorded publish errors and a successful publish, past its deadline
C9_Witness ==
    /\ mainPc = "Send"
    /\ sendState.minedTxs = {}
    /\ sendState.successFullPublishCount > 0
    /\ hist.trackerErrs > 0
    /\ DeadlineElapsed

(* the dispatch loop of the call *)
\* the call left the dispatch loop with a result
LoopLeft == mainPc = "wgWait" \/ (mainPc = "returned" /\ retErr # "BuildError")

\* Send returned the backend's confirmation and no error
ReturnedConfirmation == mainPc = "returned" /\ retErr = "nil" /\ IsReceipt(retConf)

\* goroutine t hands the receipt of its query to receiptChan in this step
Offers(t) == t.pc = "queried" /\ IsReceipt(t.resp) /\ tasks' = Exit(tasks, t)

\* C1: within one call the result slot holds at most one confirmation, the first
\* offer into the empty slot wins, every later offer is dropped while the offering
\* goroutine goes on to exit, and the call's result is set at most once.
C1_FirstOfferWins ==
    [][/\ Len(receiptChan') <= 1
       /\ \A t \in Running : Offers(t) =>
              receiptChan' = (IF receiptChan = <<>> THEN <<t.resp>> ELSE receiptChan)
       /\ (receiptChan # <<>> /\ receiptChan' # <<>>) => receiptChan' = receiptChan
       /\ LoopLeft => (retConf' = retConf /\ retErr' = retErr)]_vars

\* a second goroutine offered a confirmation while the slot was full, and the call
\* returned the first one
C1_Witness == hist.dropped /\ ReturnedConfirmation

C3_BlocksUntilCancelled ==
    (LoopLeft /\ deadline = NoDeadline /\ backend.confirmedRound = 0 /\ ~hist.rejected)
        => (ctxErr = "Canceled" /\ retErr = "Canceled" /\ retConf = NoResp)

\* a call without deadline whose publish succeeded, never confirmed, returned after
\* the caller's cancellation long after the not-in-pool deadline
C3_Witness ==
    /\ mainPc = "returned"
    /\ deadline = NoDeadline
    /\ backend.confirmedRound = 0
    /\ ~hist.rejected
    /\ retErr = "Canceled"
    /\ now = Horizon
    /\ sendState.successFullPublishCount > 0

\* C4 as stated: if the context expires before any confirmation is observed, send
\* returns exactly the deadline-exceeded error and no confirmation.
C4_Original ==
    (mainPc = "returned" /\ hist.expiredUnobserved)
        => (retErr = "DeadlineExceeded" /\ retConf = NoResp)

\* C4 as amended: if the context expires before any confirmation is observed, send
\* returns the deadline-exceeded error and no confirmation, unless a polling
\* goroutine still obtains a confirmation after the expiry and the loop receives it
\* before it handles the expiry, in which case send returns that confirmation; when
\* every submit call errors it always returns the deadline-exceeded error.
C4_DeadlineErrorUnlessLateReceipt ==
    (mainPc = "returned" /\ hist.expiredUnobserved)
        => /\ \/ retErr = "DeadlineExceeded" /\ retConf = NoResp
              \/ ReturnedConfirmation
           /\ sendState.successFullPublishCount = 0
                  => (retErr = "DeadlineExceeded" /\ retConf = NoResp)

\* every submit call failed and the call returned the deadline error
C4_Witness ==
    /\ mainPc = "returned"
    /\ hist.expiredUnobserved
    /\ hist.rejected
    /\ backend.poolError = ""
    /\ sendState.successFullPublishCount = 0
    /\ retErr = "DeadlineExceeded"

\* C5: on every return path of the dispatch loop the derived context is cancelled
\* before the call waits, and no goroutine of the call is running when it returns.
C5_NoTaskSurvivesReturn ==
    /\ mainPc = "wgWait" => subCancelled
    /\ mainPc = "returned" => (wg = 0 /\ (retErr # "BuildError" => subCancelled))

\* the loop returned a confirmation while goroutines were running, and the call
\* returned after they had exited
C5_Witness == mainPc = "returned" /\ hist.leftRunning /\ retErr = "nil" /\ wg = 0

\* C10: if no publish attempt has succeeded and no id is marked mined, the first
\* resubmission tick handled after the not-in-pool deadline has elapsed makes the
\* call fail with the Aborted error instead of spawning another publish attempt.
C10_AbortsAtTick ==
    [][(/\ mainPc = "loop"
        /\ tickerC /\ ~tickerC'
        /\ sendState.successFullPublishCount = 0
        /\ sendState.minedTxs = {}
        /\ DeadlineElapsed)
          => (mainPc' = "wgWait" /\ retErr' = "aborted" /\ tasks' = tasks)]_vars

C7_EventuallyConfirmed ==
    ( /\ [](ctxErr = "nil")
      /\ <>(sendState.successFullPublishCount > 0)
      /\ <>[](backend.confirmedRound > 0 /\ backend.poolError = "") )
        => <>ReturnedConfirmation

\* the call returned a confirmation after a publish attempt had failed or the pool
\* had rejected the transaction
C7_Witness == ReturnedConfirmation /\ hist.rejected /\ ctxErr = "nil"

(* ------------------------- the tracker's mined set --------------------- *)
\* C11: after any sequence of TxMined, TxNotMined and ProcessSendError calls
\* IsWaitingForConfirmation is true exactly when some id's latest mark is TxMined,
\* and the step TxNotMined(id) on a tracker whose only mined id is id leaves it false.
C11_WaitingIffMined ==
    [][/\ IsWaitingForConfirmation(sendState') <=> (hist'.marked # {})
       /\ \A txid \in TxIds :
              (sendState.minedTxs = {txid} /\ sendState' = TxNotMined(sendState, txid))
                  => ~IsWaitingForConfirmation(sendState')]_vars

\* one id has been marked mined after publish results of both kinds were recorded,
\* and the tracker is waiting
C11_Witness ==
    /\ mainPc = "Send"
    /\ hist.marked = {"aabb"}
    /\ hist.trackerErrs > 0
    /\ sendState.successFullPublishCount > 0
    /\ IsWaitingForConfirmation(sendState)

\* C12: TxMined and TxNotMined are idempotent insert and remove: a second TxMined(id)
\* changes nothing, TxNotMined of an absent id changes nothing, a call changes the
\* membership of its own id only, and calls on different ids commute.
C12_IdempotentMarks ==
    \A a \in TxIds :
        /\ TxMined(TxMined(sendState, a), a) = TxMined(sendState, a)
        /\ TxNotMined(TxNotMined(sendState, a), a) = TxNotMined(sendState, a)
        /\ a \in TxMined(sendState, a).minedTxs
        /\ a \notin TxNotMined(sendState, a).minedTxs
        /\ a \notin sendState.minedTxs => TxNotMined(sendState, a) = sendState
        /\ a \in sendState.minedTxs => TxMined(sendState, a) = sendState
        /\ \A b \in TxIds \ {a} :
              /\ (b \in TxMined(sendState, a).minedTxs) <=> (b \in sendState.minedTxs)
              /\ (b \in TxNotMined(sendState, a).minedTxs) <=> (b \in sendState.minedTxs)
              /\ TxMined(TxNotMined(sendState, a), b) = TxNotMined(TxMined(sendState, b), a)

\* one id is mined and the other is not, so a repeated insert, a remove of an absent
\* id and a call on the other id are all at hand
C12_Witness ==
    /\ mainPc = "Send"
    /\ sendState.minedTxs = {"ccdd"}
    /\ hist.marked = {"ccdd"}
    /\ sendState.successFullPublishCount > 0

(* --------------------------- absorbed errors -------------------------- *)
\* goroutine t handles a backend answer that carries a pool rejection in this step
HandlesPoolRejection(t) ==
    /\ t.pc = "queried"
    /\ t.resp.kind = "info"
    /\ t.resp.PoolError # ""
    /\ t \in Running
    /\ tasks' = Step(tasks, t, Task(t.tx, "waitMined", t.qC, NoResp))

\* C13: a pool rejection reported for the submission id never fails the call: the
\* id is recorded as not mined, nothing is offered to the result slot, the dispatch
\* loop stays where it is with its result untouched.
C13_PoolRejectionAbsorbed ==
    [][\A r \in {Info(0, "rejected"), Info(1, "rejected")} : \A q \in BOOLEAN :
           HandlesPoolRejection(Task(Txid, "queried", q, r))
               => /\ Txid \notin sendState'.minedTxs
                  /\ receiptChan' = receiptChan
                  /\ mainPc' = mainPc
                  /\ retErr' = retErr /\ retConf' = retConf]_vars

\* the backend reported a pool rejection to one goroutine while the confirmation
\* another attempt obtained waits in the result slot of the running loop
C13_Witness ==
    /\ mainPc = "loop"
    /\ ctxErr = "nil"
    /\ receiptChan # <<>>
    /\ \E t \in Running : t.pc = "queried" /\ t.resp.kind = "info" /\ t.resp.PoolError # ""

\* a goroutine that has not yet published
PublishTask == Task(Txid, "publish", FALSE, NoResp)

\* a submit call returns an error in this step: a goroutine leaves its publish and
\* no successful publish is recorded
SubmitErrs ==
    /\ CopiesIn(PublishTask, tasks') = CopiesIn(PublishTask, tasks) - 1
    /\ sendState'.successFullPublishCount = sendState.successFullPublishCount

\* the loop handles a resubmission tick in this step
HandlesTick == mainPc = "loop" /\ tickerC /\ ~tickerC'

\* C14: a submit call that returns an error ends its goroutine at once, without any
\* polling and without touching the loop, its result, the result slot or the mined
\* set; and a resubmission tick handled while nothing is mined and the tracker does
\* not abort spawns a new publish attempt and leaves the loop running.
C14_PublishErrorAbsorbed ==
    [][/\ SubmitErrs =>
              /\ tasks' = Exit(tasks, PublishTask)
              /\ mainPc' = mainPc
              /\ retErr' = retErr /\ retConf' = retConf
              /\ receiptChan' = receiptChan
              /\ sendState' = sendState
       /\ (HandlesTick /\ sendState.minedTxs = {} /\ ~ShouldAbortImmediately(sendState, now))
              => (tasks' = Spawn(tasks, Txid) /\ mainPc' = "loop")]_vars

\* every submit so far returned an error, the loop is still running and a new
\* attempt has been spawned
C14_Witness ==
    /\ mainPc = "loop"
    /\ ctxErr = "nil"
    /\ hist.rejected
    /\ sendState.successFullPublishCount = 0
    /\ now = Horizon
    /\ PublishTask \in Running

\* C15: if fetching the suggested parameters, building the transaction or signing
\* fails, Send returns a build error and no confirmation at once: the build is not
\* retried, no goroutine is started and the backend's submit is never called.
C15_BuildErrorIsFinal ==
    retErr = "BuildError"
        => /\ mainPc = "returned"
           /\ retConf = NoResp
           /\ ~backend.seen
           /\ wg = 0
           /\ sendState.successFullPublishCount = 0
           /\ pending = 0

\* the call returned a build error
C15_Witness == mainPc = "returned" /\ retErr = "BuildError" /\ retConf = NoResp /\ pending = 0

\* the errors that cross the boundary of Send
CallFailures == {"BuildError", "aborted", "Canceled", "DeadlineExceeded"}

\* C16: Send fails only with a build error, the Aborted error or the error of its
\* context; a publish error, a receipt-query error or a pool rejection is never its
\* result, and a failure carries no confirmation.
C16_OnlyCallFailuresReturned ==
    (mainPc \in {"wgWait", "returned"})
        => /\ retErr \in CallFailures \cup {"nil"}
           /\ retErr \in {"Canceled", "DeadlineExceeded"} => retErr = ctxErr
           /\ retErr # "nil" => retConf = NoResp
           /\ retErr = "nil" => IsReceipt(retConf)

\* a submit call failed and the pool rejected the transaction, and the call
\* returned the cancellation error of its context
C16_Witness ==
    /\ mainPc = "returned"
    /\ hist.rejected
    /\ backend.poolError # ""
    /\ sendState.successFullPublishCount > 0
    /\ retErr = "Canceled"

(* --------------------------- admission queue -------------------------- *)
\* the entries of the queue in state st
EntriesIn(q, st) == {i \in 1..Len(q.entries) : q.entries[i].st = st}

\* a call of the given kind is made in this step
Calls(call) ==
    /\ Len(queue'.entries) = Len(queue.entries) + 1
    /\ queue'.entries[Len(queue'.entries)].call = call

\* the entry the call of this step made
NewEntry == queue'.entries[Len(queue'.entries)]

\* maxPending deliveries are in flight
AtCapacity(q) == q.maxPending > 0 /\ InFlight(q) >= q.maxPending

\* C17: with maxPending = N > 0, TrySend returns false without invoking the engine
\* whenever N admitted deliveries are in flight, and returns true and starts the
\* delivery whenever fewer than N are in flight.
C17_TrySendAdmitsBelowLimit ==
    [][(Calls("TrySend") /\ queue.maxPending > 0)
          => IF InFlight(queue) >= queue.maxPending
             THEN /\ NewEntry.st = "rejected"
                  /\ Invoked(queue') = Invoked(queue)
                  /\ InFlight(queue') = InFlight(queue)
             ELSE /\ NewEntry.st = "running"
                  /\ Invoked(queue') = Invoked(queue) + 1
                  /\ InFlight(queue') = InFlight(queue) + 1]_vars

\* with one slot, a TrySend was rejected while a delivery was in flight and a later
\* TrySend was admitted after the release
C17_Witness ==
    /\ queue.maxPending = 1
    /\ \E i, j, k \in 1..Len(queue.entries) :
          /\ i < j /\ j < k
          /\ queue.entries[i].st = "released"
          /\ queue.entries[j].call = "TrySend" /\ queue.entries[j].st = "rejected"
          /\ queue.entries[k].call = "TrySend" /\ queue.entries[k].st = "running"

\* C18: with maxPending = N > 0 the number of deliveries admitted and not yet
\* released is at most N in every reachable state, for any mix of TrySend and Send.
C18_InFlightAtMostLimit ==
    queue.maxPending > 0 => InFlight(queue) <= queue.maxPending

\* two slots, both taken, by the deliveries of a TrySend and of a Send, with
\* another caller blocked
C18_Witness ==
    /\ queue.maxPending = 2
    /\ InFlight(queue) = 2
    /\ EntriesIn(queue, "blocked") # {}
    /\ \E i \in 1..Len(queue.entries) :
          queue.entries[i].call = "TrySend" /\ queue.entries[i].st \in {"running", "written"}
    /\ \E i \in 1..Len(queue.entries) :
          queue.entries[i].call = "Send" /\ queue.entries[i].st \in {"running", "written"}

\* C19: with maxPending = 0 the queue is unbounded: no TrySend is rejected and no
\* Send blocks, however many deliveries are in flight.
C19_ZeroMeansUnbounded ==
    queue.maxPending = 0
        => /\ EntriesIn(queue, "rejected") = {}
           /\ EntriesIn(queue, "blocked") = {}
           /\ Invoked(queue) = Len(queue.entries)

\* three deliveries in flight at once on an unbounded queue, from both kinds of call
C19_Witness ==
    /\ queue.maxPending = 0
    /\ InFlight(queue) >= 3
    /\ \E i, j \in 1..Len(queue.entries) :
          queue.entries[i].call = "TrySend" /\ queue.entries[j].call = "Send"

\* C20: a blocking Send is never rejected: at capacity its caller blocks, it stays
\* blocked until a slot is free, its delivery is then admitted and started, and it
\* is never started while maxPending deliveries are in flight.
C20_SendBlocksThenAdmits ==
    /\ [][/\ \A i \in 1..Len(queue'.entries) :
                queue'.entries[i].call = "Send" => queue'.entries[i].st # "rejected"
          /\ Calls("Send") =>
                NewEntry.st = (IF AtCapacity(queue) THEN "blocked" ELSE "running")
          /\ \A i \in 1..Len(queue.entries) :
                (queue.entries[i].st = "blocked" /\ queue'.entries[i].st # "blocked")
                    => (queue'.entries[i].st = "running" /\ ~AtCapacity(queue))]_vars
    /\ \A i \in 1..MaxCalls :
          (i <= Len(queue.entries) /\ queue.entries[i].st = "blocked")
              ~> (i <= Len(queue.entries) /\ queue.entries[i].st = "running")

\* a Send that had to wait at capacity was admitted later and has run to its end
C20_Witness ==
    /\ queue.maxPending = 1
    /\ \E i \in 1..Len(queue.entries) :
          /\ queue.entries[i].call = "Send"
          /\ queue.entries[i].waited
          /\ queue.entries[i].st = "released"

(* ------------------------------ Wait ----------------------------------- *)
\* Wait returns in this step
WaitReturns == queue.waitPc = "waiting" /\ queue'.waitPc = "idle"

\* C21: Wait returns only in a state where every delivery admitted so far, through
\* TrySend or through Send, has completed and released its slot; it never returns
\* while an admitted delivery is still in flight.
C21_WaitReturnsWhenDrained ==
    [][WaitReturns
          => /\ \A i \in 1..Len(queue.entries) :
                    queue.entries[i].st \in {"rejected", "blocked", "released"}
             /\ InFlight(queue') = 0
             /\ queue'.entries = queue.entries]_vars

\* Wait has returned after deliveries admitted through TrySend and through Send,
\* one of them after its caller had been blocked, were all released
C21_Witness ==
    /\ queue.waitPc = "idle"
    /\ queue.drainedAt = Len(queue.entries)
    /\ \E i, j \in 1..Len(queue.entries) :
          /\ queue.entries[i].call = "TrySend" /\ queue.entries[i].st = "released"
          /\ queue.entries[j].call = "Send" /\ queue.entries[j].st = "released"
          /\ queue.entries[j].waited

(* --------------------------- result slots ------------------------------ *)
\* C22: every admitted delivery writes exactly one result to its own result slot, on
\* success and on failure alike, and releases its concurrency slot exactly once and
\* only after that write; a call rejected by TrySend writes no result and releases
\* no slot.
C22_OneResultThenRelease ==
    [][\A i \in 1..Len(queue.entries) :
          LET e == queue.entries[i]
              f == queue'.entries[i]
          IN /\ f.res # e.res => (e.res = NoReceipt /\ e.st = "running" /\ f.st = "written")
             /\ (e.st = "running" /\ f.st # "running")
                    => (f.st = "written" /\ f.res # NoReceipt /\ f.res.ID = e.key)
             /\ (e.st # "released" /\ f.st = "released")
                    => (e.st = "written" /\ e.res # NoReceipt /\ f.res = e.res
                        /\ InFlight(queue') = InFlight(queue) - 1)
             /\ e.st = "released" => f = e
             /\ e.st = "rejected" => (f = e /\ e.res = NoReceipt)]_vars

\* with one slot: the first delivery failed, the second was confirmed, both wrote
\* their result and released the slot, and a rejected TrySend left its result slot
\* empty
C22_Witness ==
    /\ queue.maxPending = 1
    /\ \E i, j, k \in 1..Len(queue.entries) :
          /\ queue.entries[i].st = "released" /\ queue.entries[i].res.Err # "nil"
          /\ queue.entries[j].st = "released" /\ queue.entries[j].res.Err = "nil"
          /\ queue.entries[k].st = "rejected" /\ queue.entries[k].res = NoReceipt

(* ------------------------- forwarded outcomes -------------------------- *)
\* the entries whose result has been written
Delivered(q) == {i \in 1..Len(q.entries) : q.entries[i].st \in {"written", "released"}}

\* C23: the result the queue writes for an entry carries that entry's key and
\* exactly the confirmation or error the engine's Send returned for it; the engine
\* is invoked once per entry and never again, the entry's key and call stay what the
\* caller gave, and no error appears in a result that the engine did not return.
C23_ForwardsEngineOutcome ==
    /\ [][/\ \A i \in 1..Len(queue.entries) :
                /\ queue'.entries[i].key = queue.entries[i].key
                /\ queue'.entries[i].call = queue.entries[i].call
                /\ (queue.entries[i].st = "running" /\ queue'.entries[i].st = "written")
                       => /\ mainPc = "returned"
                          /\ queue'.entries[i].res
                                 = TxReceipt(queue.entries[i].key, retConf, retErr)
          /\ mainPc = "returned" => mainPc' = "returned"
          /\ pending' <= 1]_vars
    /\ [](\A i \in Delivered(queue) :
              /\ queue.entries[i].res = TxReceipt(queue.entries[i].key, retConf, retErr)
              /\ queue.entries[i].res.Err \in CallFailures \cup {"nil"}
              /\ queue.entries[i].res.Err = "nil" <=> IsReceipt(queue.entries[i].res.Receipt))

\* the engine gave up at its own send timeout after a failed publish, and the result
\* slot of the entry holds the deadline error under the entry's key
C23_Witness ==
    /\ hist.rejected
    /\ \E i \in 1..Len(queue.entries) :
          /\ queue.entries[i].st = "released"
          /\ queue.entries[i].res = TxReceipt(queue.entries[i].key, NoResp, "DeadlineExceeded")

(* ------------------------ one slot, TrySend and Wait ------------------- *)
\* Wait has returned and no call has been made since
JustDrained(q) == q.drainedAt = Len(q.entries)

\* every call made so far was a TrySend
OnlyTrySend(q) == \A i \in 1..Len(q.entries) : q.entries[i].call = "TrySend"

\* C24: with maxPending = 1, a TrySend made while a delivery is in flight returns
\* false, and a TrySend made after that delivery has completed and Wait has returned
\* returns true and starts its delivery.
C24_OneSlotTrySend ==
    [][(Calls("TrySend") /\ queue.maxPending = 1)
          => /\ InFlight(queue) >= 1 => NewEntry.st = "rejected"
             /\ (JustDrained(queue) /\ OnlyTrySend(queue)) => NewEntry.st = "running"]_vars

\* with one slot: the second TrySend was rejected while the first delivery was in
\* flight, Wait returned after these two calls, and the third TrySend was admitted
C24_Witness ==
    /\ queue.maxPending = 1
    /\ Len(queue.entries) = 3
    /\ OnlyTrySend(queue)
    /\ queue.drainedAt = 2
    /\ queue.entries[1].st = "released"
    /\ queue.entries[2].st = "rejected"
    /\ queue.entries[3].st = "running"

(* --------------------------- delivery periods -------------------------- *)
\* the calls that were not rejected
Accepted(q) == {i \in 1..Len(q.entries) : q.entries[i].st # "rejected"}

\* the least number of rounds in which n deliveries fit, m at a time
Rounds(n, m) == (n + m - 1) \div m

\* the calls so far are exactly three blocking Send calls
ThreeSends(q) ==
    /\ Len(q.entries) = 3
    /\ \A i \in 1..3 : q.entries[i].call = "Send"

\* C25: with maxPending = 2, three blocking Send calls for deliveries that each take
\* DeliveryTime are all complete within Rounds(3, 2) * DeliveryTime: two run in the
\* first period, the third in the second, and no caller waits longer than one
\* delivery period for a slot.  The bound holds for every limit and number of calls.
C25_ThreeSendsInTwoPeriods ==
    /\ queue.maxPending > 0
          => now <= Rounds(Cardinality(Accepted(queue)), queue.maxPending) * DeliveryTime
    /\ \A i \in 1..Len(queue.entries) :
          /\ queue.entries[i].st = "blocked" => now - queue.entries[i].issued <= DeliveryTime
          /\ queue.entries[i].started - queue.entries[i].issued <= DeliveryTime
    /\ (queue.maxPending = 2 /\ ThreeSends(queue))
          => /\ now <= 2 * DeliveryTime
             /\ queue.entries[1].started = 0 /\ queue.entries[2].started = 0
             /\ queue.entries[3].waited
             /\ queue.entries[3].st # "blocked" => queue.entries[3].started = DeliveryTime

\* two slots and three Send calls: all three deliveries are complete and released at
\* the end of the second period, the third having waited one period
C25_Witness ==
    /\ queue.maxPending = 2
    /\ ThreeSends(queue)
    /\ \A i \in 1..3 : queue.entries[i].st = "released"
    /\ queue.entries[3].started = DeliveryTime
    /\ now = 2 * DeliveryTime

(* ----------------------------- send timeout ---------------------------- *)
\* send has derived its context
PastSend == mainPc \notin {"Send"}

\* C26: with TxSendTimeout = T > 0 and a caller's context without deadline, the
\* call's context expires once T has elapsed, and a call that returns without a
\* confirmation, without a build error and without the caller's cancellation returns
\* the deadline-exceeded error, not before T; with TxSendTimeout = 0 the engine adds
\* no deadline and the call never sees a deadline error.
C26_SendTimeoutIsTheDeadline ==
    /\ (PastSend /\ hist.sendTimeout > 0)
          => /\ deadline = hist.sendTimeout
             /\ now >= hist.sendTimeout => ctxErr # "nil"
             /\ ctxErr = "DeadlineExceeded" => now >= hist.sendTimeout
             /\ (mainPc = "returned" /\ retErr \notin {"nil", "BuildError"} /\ ctxErr # "Canceled")
                    => (retErr = "DeadlineExceeded" /\ retConf = NoResp /\ now >= hist.sendTimeout)
    /\ (PastSend /\ hist.sendTimeout = 0)
          => /\ deadline = NoDeadline
             /\ ctxErr # "DeadlineExceeded"
             /\ retErr # "DeadlineExceeded"

\* a call with a send timeout and a caller without deadline: the publish succeeded,
\* the backend never confirmed, and the call returned the deadline error
C26_Witness ==
    /\ mainPc = "returned"
    /\ hist.sendTimeout = TxSendTimeout
    /\ sendState.successFullPublishCount > 0
    /\ backend.confirmedRound = 0
    /\ retErr = "DeadlineExceeded"
    /\ retConf = NoResp

(* ------------------------ ticks while waiting -------------------------- *)
\* C27: a resubmission tick handled while the tracker reports a mined id spawns no
\* publish attempt, does not abort, and leaves the running goroutines, the tracker,
\* the result slot and the loop as they are.
C27_TickSkippedWhileWaiting ==
    [][(HandlesTick /\ sendState.minedTxs # {})
          => /\ tasks' = tasks
             /\ sendState' = sendState
             /\ receiptChan' = receiptChan
             /\ mainPc' = "loop"
             /\ retErr' = retErr /\ retConf' = retConf
             /\ subCancelled' = subCancelled]_vars

\* the only goroutine of the call published, found the receipt and marked the id
\* mined during the first resubmission interval; the tick that followed has been
\* handled, no second goroutine was ever spawned, and the loop is still running
C27_Witness ==
    /\ mainPc = "loop"
    /\ ctxErr = "nil"
    /\ now = ResubmissionTimeout
    /\ tickerIn = ResubmissionTimeout
    /\ ~tickerC
    /\ sendState.minedTxs = {Txid}
    /\ sendState.successFullPublishCount = 1
    /\ ~hist.rejected
    /\ wg = 0
    /\ receiptChan # <<>>

(* ------------------------ one signed transaction ---------------------- *)
\* C28: a call fetches the suggested parameters and signs at most once, before the
\* dispatch loop, and every publish attempt it spawns, the first and every
\* resubmission, is given and submits the one signed transaction with the same id;
\* nothing is fetched or signed again afterwards.
C28_SameTransactionResubmitted ==
    /\ [][mainPc # "craftTx"
              => (backend'.params = backend.params /\ hist'.signs = hist.signs)]_vars
    /\ [](/\ backend.params <= 1
          /\ hist.signs <= 1
          /\ \A t \in Running : t.tx = Txid
          /\ backend.ids \subseteq {Txid}
          /\ sendState.minedTxs \subseteq {Txid}
          /\ backend.seen => (backend.ids = {Txid} /\ backend.params = 1 /\ hist.signs = 1))

\* the first attempt and a resubmission have both published, a further goroutine
\* has been spawned, and the backend has seen one id, one parameter fetch and one
\* signature
C28_Witness ==
    /\ mainPc = "loop"
    /\ sendState.successFullPublishCount = 2
    /\ PublishTask \in Running
    /\ backend.ids = {Txid}
    /\ backend.params = 1
    /\ hist.signs = 1

(* --------------------------- end of polling ---------------------------- *)
\* a backend answer that is final for the id: confirmed, or rejected by the pool
Terminal(r) == r.kind = "info" /\ (r.ConfirmedRound > 0 \/ r.PoolError # "")

\* goroutine t polls again after the answer it holds
PollsAgain(t) == tasks' = Step(tasks, t, Task(t.tx, "waitMined", t.qC, NoResp))

\* goroutine t handles the answer of its query in this step
HandlesAnswer(t) == t.pc = "queried" /\ (tasks' = Exit(tasks, t) \/ PollsAgain(t))

\* C29: a goroutine whose submit succeeded stops polling as soon as the backend
\* reports a terminal answer for its id, a confirmed round or a pool rejection;
\* on any other answer it polls again, and it leaves its wait only when the
\* call's context is done.
C29_StopsAtTerminalConfirmation ==
    [][\A t \in Running :
          /\ HandlesAnswer(t) => (Terminal(t.resp) <=> tasks' = Exit(tasks, t))
          /\ (t.pc = "waitMined" /\ tasks' = Exit(tasks, t)) => ctxDone]_vars

(* ------------------- mined marks are a hint only ----------------------- *)
\* the dispatch loop returns in this step
LoopReturns == mainPc = "loop" /\ mainPc' # "loop"

\* C30: the outcome of a call never depends on the mined marks of the tracker: a
\* goroutine that holds a confirmation offers it whatever is marked, a loop that
\* returns while a confirmation is in the result slot returns that confirmation or
\* the error of its ended context, and no success is returned without a
\* confirmation the backend reported.
C30_MarksNeverDecideOutcome ==
    /\ [][/\ \A t \in Running :
                (HandlesAnswer(t) /\ IsReceipt(t.resp))
                    => (tasks' = Exit(tasks, t) /\ receiptChan' = Offer(receiptChan, t.resp))
          /\ (LoopReturns /\ receiptChan # <<>>)
                => \/ retErr' = "nil" /\ retConf' = Head(receiptChan)
                   \/ ctxDone /\ retErr' = ctxErr /\ retConf' = NoResp]_vars
    /\ []((mainPc \in {"wgWait", "returned"} /\ retErr = "nil")
              => /\ IsReceipt(retConf)
                 /\ backend.confirmedRound > 0
                 /\ retConf.ConfirmedRound = backend.confirmedRound)

\* a stale not-mined mark landed after the mined mark of another goroutine, and the
\* call still returned the confirmation that goroutine had offered
C30_Witness ==
    /\ ReturnedConfirmation
    /\ ctxErr = "nil"
    /\ sendState.minedTxs = {}
    /\ sendState.successFullPublishCount = 2

(* ------------------------ recorded publish results --------------------- *)
\* C31: ProcessSendError(nil) increases successFullPublishCount by exactly one,
\* ProcessSendError with a non-nil error changes no field of the tracker, and
\* neither call changes the mined set or the not-in-pool deadline.
C31_PublishResultRecorded ==
    /\ [](/\ ProcessSendError(sendState, "nil")
                 = [sendState EXCEPT !.successFullPublishCount = @ + 1]
          /\ ProcessSendError(sendState, "err") = sendState
          /\ \A err \in {"nil", "err"} :
                /\ ProcessSendError(sendState, err).minedTxs = sendState.minedTxs
                /\ ProcessSendError(sendState, err).txInMempoolDeadline
                       = sendState.txInMempoolDeadline)
    /\ [][/\ hist'.trackerErrs = hist.trackerErrs + 1 => sendState' = sendState
          /\ sendState'.successFullPublishCount # sendState.successFullPublishCount
                => \/ sendState' = [sendState EXCEPT !.successFullPublishCount = @ + 1]
                   \/ sendState' = NewSendStateWithNow(TxNotInMempoolTimeout, now)]_vars

\* a tracker with both ids mined on a clock that has moved, after one successful
\* and one failed publish were recorded
C31_Witness ==
    /\ mainPc = "Send"
    /\ now > 0
    /\ sendState.minedTxs = TxIds
    /\ sendState.successFullPublishCount = 1
    /\ hist.trackerErrs = 1

(* ------------------------ answers of a receipt query -------------------- *)
\* the answer says that the id is unknown or not in a round yet
NotYetMined(r) == r.kind = "nil" \/ (r.kind = "info" /\ r.ConfirmedRound <= 0)

\* C32: a receipt query that returns an error leaves the tracker unchanged and
\* its goroutine keeps polling; a query that reports the id absent or with
\* confirmed round 0 records the id as not mined.
C32_QueryErrorLeavesTracker ==
    [][\A t \in Running : HandlesAnswer(t) =>
          /\ t.resp.kind = "err" =>
                (sendState' = sendState /\ receiptChan' = receiptChan /\ PollsAgain(t))
          /\ NotYetMined(t.resp) =>
                /\ sendState' = TxNotMined(sendState, t.tx)
                /\ t.tx \notin sendState'.minedTxs
                /\ PollsAgain(t)]_vars

\* a goroutine holds a failed query while the id is marked mined by another
\* goroutine, whose receipt is in the slot
C32_Witness ==
    /\ mainPc = "loop"
    /\ ctxErr = "nil"
    /\ sendState.minedTxs = {Txid}
    /\ receiptChan # <<>>
    /\ \E t \in Running : t.pc = "queried" /\ t.resp = ErrResp

(* ------------------- publish attempts and processed ticks --------------- *)
\* a call whose publish attempts and processed resubmission ticks are counted
InitAttempts ==
    InitCall(NoHist(TRUE)) /\ queue = NewQueue(0) /\ cfg = EngineConfig /\ other = NoCall

SpecAttempts == InitAttempts /\ [][Next]_vars

\* sendTx has entered its loop
InLoop == mainPc \in {"loop", "wgWait"} \/ (mainPc = "returned" /\ retErr # "BuildError")

\* C33: sendTx starts exactly one publish-and-wait goroutine before it waits for
\* the first tick, and in every state the number of publish attempts the call has
\* started is at most one plus the number of resubmission ticks it has processed.
C33_AttemptsBoundedByTicks ==
    /\ [](/\ hist.attempts <= 1 + hist.ticks
          /\ ~InLoop => (hist.attempts = 0 /\ hist.ticks = 0 /\ wg = 0)
          /\ (InLoop /\ hist.ticks = 0) => hist.attempts = 1)
    /\ [][/\ (mainPc = "sendTx" /\ mainPc' = "loop")
                => (tasks' = SetToBag({PublishTask}) /\ ~tickerC' /\ tickerIn' > 0)
          /\ hist'.attempts - hist.attempts = (IF wg' > wg THEN wg' - wg ELSE 0)
          /\ hist'.ticks - hist.ticks = (IF HandlesTick THEN 1 ELSE 0)]_vars

\* the call has processed two ticks, one skipped while a confirmation was awaited,
\* and has started two attempts
C33_Witness ==
    /\ hist.counted
    /\ hist.ticks = 2
    /\ hist.attempts = 2
    /\ mainPc = "loop"

(* --------------------- the first confirmation query -------------------- *)
\* one ReceiptQueryInterval passes in this step
IntervalPasses == tasks' = BagOfAll(QueryTick, tasks)

\* the clock has not stopped counting since the call's first successful submit
ClockCounts == hist.firstSubmit + ReceiptQueryInterval <= Horizon

\* C34: after a successful submit a goroutine issues its first confirmation query
\* only after one full ReceiptQueryInterval, so Send never returns a confirmation
\* earlier than one ReceiptQueryInterval after its first successful submit.
C34_FirstQueryAfterOneInterval ==
    /\ [][\A u \in BagToSet(tasks') :
            /\ (u.pc = "waitMined" /\ u.qC) =>
                  \/ u \in Running
                  \/ IntervalPasses
                  \/ \E t \in Running : t.pc = "queried" /\ t.qC /\ t.tx = u.tx
            /\ u.pc = "queried" =>
                  \/ u \in Running
                  \/ IntervalPasses
                  \/ \E t \in Running : t.pc = "waitMined" /\ t.qC /\ t.tx = u.tx]_vars
    /\ [](hist.firstSubmit # NeverSubmitted /\ ClockCounts =>
            /\ (receiptChan # <<>> \/ retConf # NoResp)
                  => now >= hist.firstSubmit + ReceiptQueryInterval
            /\ \A t \in Running : (t.pc = "queried" \/ t.qC)
                  => now >= hist.firstSubmit + ReceiptQueryInterval)

\* Send returned a confirmation exactly one ReceiptQueryInterval after its first
\* successful submit
C34_Witness ==
    /\ hist.counted
    /\ ReturnedConfirmation
    /\ hist.firstSubmit = 0
    /\ now = hist.firstSubmit + ReceiptQueryInterval

(* ----------------------- validation of the flags ------------------------ *)
\* what a duration flag can hold: time.Duration is signed
Durations == (0 - MaxDuration)..MaxDuration

CLIConfigs ==
    {CLIConfig(url, n, r, q, s, d, e) :
        url \in {"", "url"}, n \in Durations, r \in Durations, q \in Durations,
        s \in {0, MaxDuration}, d \in Durations, e \in {"nil", "signer"}}

\* ReadCLIConfig: the flags are read into a CLIConfig
ReadCLIConfig ==
    /\ cfg.pc = "flags"
    /\ \E m \in CLIConfigs : cfg' = [cli |-> m, pc |-> "read", err |-> "nil"]
    /\ UNCHANGED <<now, deadline, ctxErr, subCancelled, pending, mainPc, retConf, retErr,
                   sendState, receiptChan, tickerC, tickerIn, tasks, backend, hist, queue,
                   other>>

\* NewConfig: cfg.Check() decides whether a Config is built from the CLIConfig
NewConfig ==
    /\ cfg.pc = "read"
    /\ cfg' = [cfg EXCEPT !.pc = "checked", !.err = Check(cfg.cli)]
    /\ UNCHANGED <<now, deadline, ctxErr, subCancelled, pending, mainPc, retConf, retErr,
                   sendState, receiptChan, tickerC, tickerIn, tasks, backend, hist, queue,
                   other>>

\* before the flags are read: the flags' default values
InitConfig ==
    /\ InitEngine
    /\ queue = NewQueue(0)
    /\ cfg = [EngineConfig EXCEPT !.pc = "flags", !.err = "nil"]
    /\ other = NoCall

NextConfig == ReadCLIConfig \/ NewConfig

SpecConfig == InitConfig /\ [][NextConfig]_vars

\* the durations that the specification requires to be positive
PositiveDurations ==
    {"ResubmissionTimeout", "ReceiptQueryInterval", "NetworkTimeout", "TxNotInMempoolTimeout"}

\* C35: the check of the configuration rejects every configuration in which
\* the resubmission interval, the receipt-poll interval, the network timeout or
\* the not-in-pool deadline is zero or negative, and accepts a send timeout of 0.
C35_RejectsNonPositive ==
    cfg.pc = "checked" =>
        /\ (\E f \in PositiveDurations : cfg.cli[f] <= 0) => cfg.err # "nil"
        /\ (/\ \A f \in PositiveDurations : cfg.cli[f] > 0
            /\ cfg.cli.L1RPCURL # ""
            /\ cfg.cli.SignerErr = "nil"
            /\ cfg.cli.TxSendTimeout = 0) => cfg.err = "nil"

(* -------------------- where a confirmation comes from ------------------- *)
\* the backend's answer for the call's transaction, as it stands
Reported == PendingTransactionInformation(backend)

\* C36: every confirmation that Send returns as success was reported by the
\* backend for the id of the transaction signed in that call, with a confirmed
\* round > 0 and an empty pool error; an answer with both a confirmed round > 0
\* and a pool error is never returned.
C36_ReturnedConfirmationIsBackends ==
    /\ [](/\ \A i \in 1..Len(receiptChan) : IsReceipt(receiptChan[i])
          /\ retConf # NoResp =>
                /\ IsReceipt(retConf)
                /\ retErr = "nil"
                /\ hist.signs = 1
                /\ backend.ids = {Txid}
                /\ backend.present
                /\ backend.confirmedRound = retConf.ConfirmedRound)
    /\ [][/\ \A u \in BagToSet(tasks') :
                (u.pc = "queried" /\ u \notin Running /\ ~IntervalPasses) =>
                /\ u.tx = Txid
                /\ u.tx \in backend.ids
                /\ u.resp \in {ErrResp, Reported}
          /\ receiptChan' # <<>> /\ receiptChan' # receiptChan =>
                \E t \in Running : /\ Offers(t)
                                    /\ t.tx = Txid
                                    /\ receiptChan' = <<t.resp>>
          /\ retConf' # retConf => (receiptChan # <<>> /\ retConf' = Head(receiptChan))]_vars

\* Send returned a confirmation while the backend's answer for the id by now
\* carries a confirmed round together with a pool error
C36_Witness ==
    /\ ReturnedConfirmation
    /\ backend.confirmedRound > 0
    /\ backend.poolError # ""
    /\ hist.signs = 1

(* ------------------- publishing after the context ended ----------------- *)
\* C37: once the call's context is cancelled or expired no further publish
\* attempt is started: a Send entered with an ended context starts no goroutine
\* and submits nothing to the backend, and a resubmission tick that is pending
\* together with the cancellation never spawns a goroutine.
C37_NoAttemptAfterContextEnds ==
    [][ctxErr # "nil" => wg' <= wg]_vars

(* --------------------------- size of the mined set ---------------------- *)
\* C38: in every reachable state of a Send call the mined set has at most one
\* element, and that element can only be the id of the call's signed transaction.
C38_MinedSetIsOwnId ==
    /\ [](/\ Cardinality(sendState.minedTxs) <= 1
          /\ sendState.minedTxs \subseteq {Txid}
          /\ sendState.minedTxs # {} => (hist.signs = 1 /\ sendState.minedTxs = backend.ids))
    /\ [][sendState'.minedTxs # sendState.minedTxs =>
            \/ mainPc = "sendTx" /\ sendState'.minedTxs = {}
            \/ \E t \in Running :
                  /\ HandlesAnswer(t)
                  /\ t.tx = Txid
                  /\ sendState'.minedTxs \in {sendState.minedTxs \cup {t.tx},
                                               sendState.minedTxs \ {t.tx}}]_vars

\* two goroutines of the call have marked the id mined, the second after the
\* first one's receipt took the slot, and the set holds the one id
C38_Witness ==
    /\ mainPc = "loop"
    /\ hist.dropped
    /\ sendState.minedTxs = {Txid}
    /\ sendState.successFullPublishCount = 2

(* ---------------------- two calls of Send at a time --------------------- *)
\* The second call runs the same code as the first. It is followed through the
\* steps that write the pending counter, the locals of its sendTx (tracker and
\* result channel) and its result; its goroutines are not told apart.

\* Send of the second call: m.pending.Add(1)
Other_Send ==
    /\ other.pc = "idle"
    /\ other' = [other EXCEPT !.pc = "craftTx"]
    /\ pending' = pending + 1
    /\ UNCHANGED <<now, deadline, ctxErr, subCancelled, mainPc, retConf, retErr,
                   sendState, receiptChan, tickerC, tickerIn, tasks, backend, hist>>
    /\ UNCHANGED <<queue, cfg>>

\* craftTx of the second call; a failure ends the call, the deferred Add(-1) runs
Other_craftTx ==
    /\ other.pc = "craftTx"
    /\ \E fail \in BuildFailures \cup {"none"} : \E id \in TxIds :
          /\ other' = [other EXCEPT !.pc = AfterCraft(fail),
                                    !.tx = IF fail = "none" THEN id ELSE @,
                                    !.retErr = IF fail = "none" THEN @ ELSE "BuildError"]
          /\ pending' = IF AfterCraft(fail) = "returned" THEN Returns(pending) ELSE pending
    /\ UNCHANGED <<now, deadline, ctxErr, subCancelled, mainPc, retConf, retErr,
                   sendState, receiptChan, tickerC, tickerIn, tasks, backend, hist>>
    /\ UNCHANGED <<queue, cfg>>

\* sendTx of the second call up to its loop: its own tracker and channel
Other_sendTx ==
    /\ other.pc = "sendTx"
    /\ other' = [other EXCEPT !.pc = "loop",
                              !.sendState = NewSendState(TxNotInMempoolTimeout, now),
                              !.receiptChan = <<>>]
    /\ UNCHANGED <<now, deadline, ctxErr, subCancelled, pending, mainPc, retConf, retErr,
                   sendState, receiptChan, tickerC, tickerIn, tasks, backend, hist>>
    /\ UNCHANGED <<queue, cfg>>

\* a goroutine of the second call publishes and records the result
Other_publishAndWaitForTx(err) ==
    /\ other.pc = "loop"
    /\ other.sendState.successFullPublishCount < MaxPublish
    /\ other' = [other EXCEPT !.sendState = ProcessSendError(@, err)]
    /\ UNCHANGED <<now, deadline, ctxErr, subCancelled, pending, mainPc, retConf, retErr,
                   sendState, receiptChan, tickerC, tickerIn, tasks, backend, hist>>
    /\ UNCHANGED <<queue, cfg>>

\* what the backend can answer to a query of the second call
OtherAnswers == {ErrResp, NilInfo, Info(0, ""), Info(1, ""), Info(1, "rejected")}

\* a manager whose tracker and result channel are shared by its calls
Other_queryReceipt_Shared(r) ==
    /\ other.pc = "loop"
    /\ other.sendState.successFullPublishCount > 0
    /\ IF r.kind = "err"
       THEN UNCHANGED <<sendState, receiptChan>>
       ELSE IF r.kind = "nil" \/ r.ConfirmedRound <= 0 \/ r.PoolError # ""
       THEN sendState' = TxNotMined(sendState, other.tx) /\ UNCHANGED receiptChan
       ELSE sendState' = TxMined(sendState, other.tx) /\ receiptChan' = Offer(receiptChan, r)
    /\ UNCHANGED <<now, deadline, ctxErr, subCancelled, pending, mainPc, retConf, retErr,
                   tickerC, tickerIn, tasks, backend, hist>>
    /\ UNCHANGED <<queue, cfg, other>>

\* queryReceipt of a goroutine of the second call, and the offer of a receipt
Other_queryReceipt(r) ==
    /\ other.pc = "loop"
    /\ other.sendState.successFullPublishCount > 0
    /\ other' = IF r.kind = "err"
                THEN other
                ELSE IF r.kind = "nil" \/ r.ConfirmedRound <= 0
                THEN [other EXCEPT !.sendState = TxNotMined(@, other.tx)]
                ELSE IF r.PoolError # ""
                THEN [other EXCEPT !.sendState = TxNotMined(@, other.tx)]
                ELSE [other EXCEPT !.sendState = TxMined(@, other.tx),
                                   !.receiptChan = Offer(@, r)]
    /\ UNCHANGED <<now, deadline, ctxErr, subCancelled, pending, mainPc, retConf, retErr,
                   sendState, receiptChan, tickerC, tickerIn, tasks, backend, hist>>
    /\ UNCHANGED <<queue, cfg>>

\* the second call returns the receipt from its channel
Other_receipt ==
    /\ other.pc = "loop"
    /\ other.receiptChan # <<>>
    /\ other' = [other EXCEPT !.pc = "returned",
                              !.retConf = Head(other.receiptChan),
                              !.retErr = "nil",
                              !.receiptChan = Tail(@)]
    /\ pending' = Returns(pending)
    /\ UNCHANGED <<now, deadline, ctxErr, subCancelled, mainPc, retConf, retErr,
                   sendState, receiptChan, tickerC, tickerIn, tasks, backend, hist>>
    /\ UNCHANGED <<queue, cfg>>

\* the second call's own context is cancelled and it returns the context's error
Other_ctxDone ==
    /\ other.pc = "loop"
    /\ other' = [other EXCEPT !.pc = "returned", !.retErr = "Canceled"]
    /\ pending' = Returns(pending)
    /\ UNCHANGED <<now, deadline, ctxErr, subCancelled, mainPc, retConf, retErr,
                   sendState, receiptChan, tickerC, tickerIn, tasks, backend, hist>>
    /\ UNCHANGED <<queue, cfg>>

NextOther ==
    \/ Other_Send
    \/ Other_craftTx
    \/ Other_sendTx
    \/ \E err \in {"nil", "err"} : Other_publishAndWaitForTx(err)
    \/ \E r \in OtherAnswers : Other_queryReceipt(r)
    \/ Other_receipt
    \/ Other_ctxDone

\* the first call in runs where it returns before its resubmission ticker is
\* served: it has the one goroutine that sendTx starts
NextFirst ==
    \/ Tick
    \/ CallerCancel
    \/ BackendConfirm
    \/ Send
    \/ craftTx
    \/ sendTx
    \/ sendTx_ctxDone
    \/ sendTx_receipt
    \/ sendTx_return
    \/ \E t \in Running : publishAndWaitForTx(t, "nil")
    \/ \E t \in Running : waitMined_ctxDone(t)
    \/ \E t \in Running : waitMined_queryInfo(t)
    \/ \E t \in Running : queryReceipt(t)

NextConcurrent == NextFirst \/ NextOther

SpecConcurrent == InitBackground /\ [][NextConcurrent]_vars

\* what the first call keeps to itself
OwnOfFirst == <<sendState, receiptChan, retConf, retErr, tasks, mainPc>>

\* C39: every Send call works on its own fresh tracker and result channel; with
\* two calls running at a time, a mark, a publish count or an offer of one call
\* never changes the tracker, the channel or the result of the other.
C39_CallsDoNotShareTracker ==
    /\ [](/\ sendState.minedTxs \subseteq {Txid}
          /\ other.sendState.minedTxs \subseteq {other.tx}
          /\ Len(other.receiptChan) <= ReceiptChanCap
          /\ other.retConf # NoResp => IsReceipt(other.retConf))
    /\ [][/\ other' # other => OwnOfFirst' = OwnOfFirst
          /\ OwnOfFirst' # OwnOfFirst => other' = other
          /\ (mainPc = "sendTx" /\ mainPc' = "loop") =>
                /\ sendState' = NewSendState(TxNotInMempoolTimeout, now)
                /\ receiptChan' = <<>>
          /\ (other.pc = "sendTx" /\ other'.pc = "loop") =>
                /\ other'.sendState = NewSendState(TxNotInMempoolTimeout, now)
                /\ other'.receiptChan = <<>>]_vars

\* both calls are in their loops for the same transaction id; the second has
\* recorded two publishes, marked the id mined and filled its channel, the first
\* has recorded one publish, no mark and an empty channel
C39_Witness ==
    /\ mainPc = "loop"
    /\ other.pc = "loop"
    /\ other.tx = Txid
    /\ other.sendState.minedTxs = {Txid}
    /\ other.sendState.successFullPublishCount = 2
    /\ other.receiptChan # <<>>
    /\ sendState.minedTxs = {}
    /\ sendState.successFullPublishCount = 1
    /\ receiptChan = <<>>

(* ----------------------------- the pending counter --------------------- *)
\* 1 while a call of Send with this position is in progress, else 0
InProgress(pc) == IF pc \in {"idle", "Send", "returned"} THEN 0 ELSE 1

\* C40: in every reachable state the pending counter equals the number of Send
\* calls in progress: it is incremented once when a call enters, decremented
\* once on every return path, never negative, and 0 when no call is running.
C40_PendingCountsCalls ==
    /\ [](/\ pending = InProgress(mainPc) + InProgress(other.pc)
          /\ pending >= 0
          /\ (InProgress(mainPc) = 0 /\ InProgress(other.pc) = 0) => pending = 0)
    /\ [][/\ (InProgress(mainPc') > InProgress(mainPc) /\ other' = other)
                => pending' = pending + 1
          /\ (InProgress(mainPc') < InProgress(mainPc) /\ other' = other)
                => pending' = pending - 1
          /\ InProgress(other'.pc) > InProgress(other.pc) => pending' = pending + 1
          /\ InProgress(other'.pc) < InProgress(other.pc) => pending' = pending - 1
          /\ (mainPc' = mainPc /\ other'.pc = other.pc) => pending' = pending]_vars

\* both calls have returned, the first with the error of its cancelled context
\* and the second with a build error, and the counter is back at 0
C40_Witness ==
    /\ mainPc = "returned"
    /\ retErr = "Canceled"
    /\ other.pc = "returned"
    /\ other.retErr = "BuildError"
    /\ pending = 0

====
